---- MODULE Spec2Model ----
(***************************************************************************)
(* Model of the two tide pipelines of naya-tidal-flat:                     *)
(*   scripts/fetch_observed_tide.py   (fetch, extract, save_data, main)    *)
(*   scripts/fetch_tide_prediction.py (fetch_prediction_data,              *)
(*                                     save_prediction_data, main)         *)
(*                                                                         *)
(* A datetime string "YYYY-MM-DDTHH:MM:00" produced by the scripts is      *)
(* zero-padded and of fixed width, so Python's string comparison on it is  *)
(* the chronological order.  In the persisters it is represented by the    *)
(* number of minutes since 00:00 of day 0 (Dt); the character-level        *)
(* formatting itself is modelled in the extraction part.                   *)
(***************************************************************************)
EXTENDS Integers, Sequences, FiniteSets, TLC

VARIABLES
    clock,          \* the calendar date datetime.now() would return (a day number)
    files,          \* data/observed/oita_observed_<date>.json : date -> JSON array
    latest,         \* data/observed/latest.json : <<>> when absent, else <<array>>
    calls,          \* number of completed save_data calls
    data,           \* save_data: argument of the last call
    existing_data,  \* save_data: local of the last call (line 59-62)
    today,          \* save_data: date read at line 55 (names the store file)
    cutoff,         \* save_data: date read at line 76 (start of the latest window)
    prevData,       \* argument of the call before the last one
    prevToday,      \* `today' of the call before the last one
    tuples,         \* the tuples the gauge page lists in its data section
    content,        \* the raw page text, a sequence of characters (None: no page)
    data_rows,      \* extract_observed_tide: the list it returns
    xpc,            \* "page" before extract_observed_tide has run, then "extracted"
    rpc,            \* concurrent save_data calls: the position of each call
    rdata,          \*   its argument data
    rtoday,         \*   its local today
    rexisting,      \*   its local existing_data
    rsorted,        \*   its local sorted_data
    reads,          \*   how often it has read the store file
    writes,         \*   how often it has written the store file
    seen,           \*   the calls whose write was on disk when it read
    lastWriter,     \* the call that wrote the store file last (0: none yet)
    pc,             \* the position of the script run: in main(), "returned", "raised"
    run,            \* which script runs: "observed" or "prediction"
    loop_i,         \* prediction main: the loop variable i
    start_date,     \* prediction main: local start_date
    pred_all_data,  \* prediction main: local all_data
    failed,         \* the loop indexes whose response was not a well-formed page
    predFiles,      \* data/prediction/oita_prediction_<date>.json : date -> array
    predLatest,     \* data/prediction/latest.json : <<>> when absent, else <<array>>
    pred_today,     \* save_prediction_data: local today
    saves,          \* how often the run has called its persister
    before          \* the four kinds of output file as they were when the run began

saveVars == <<clock, files, latest, calls, data, existing_data, today, cutoff,
              prevData, prevToday>>

extractVars == <<tuples, content, data_rows, xpc>>

raceVars == <<rpc, rdata, rtoday, rexisting, rsorted, reads, writes, seen, lastWriter>>

driverVars == <<pc, run, loop_i, start_date, pred_all_data, failed, predFiles, predLatest,
                pred_today, saves, before>>

vars == <<saveVars, extractVars, raceVars, driverVars>>

-----------------------------------------------------------------------------
(* Bounds of the model *)

MaxCalls == 2       \* save_data calls in one behaviour
MaxDay == 2         \* the clock runs over days 1..MaxDay (day 0 is "yesterday")
MaxTuples == 2      \* tuples in the data section of a generated gauge page

(* Program constants *)

DAYS_TO_FETCH == 7
HoursFetched == 24              \* for j in range(24)
LatestWindow == 288             \* recent_data[-288:]
MinutesPerDay == 24 * 60
SampleMinutes == 5              \* the gauge reports 5-minute values

-----------------------------------------------------------------------------
(* Records and datetimes *)

Dt(date, hour, minute) == date * MinutesPerDay + hour * 60 + minute

Midnight(date) == Dt(date, 0, 0)        \* <date> + 'T00:00:00'

Observed(dt, cm) == [datetime |-> dt, tide |-> cm, type |-> "observed"]

Min(a, b) == IF a <= b THEN a ELSE b

-----------------------------------------------------------------------------
(* save_data of fetch_observed_tide.py, as pure steps *)

\* line 59-62: the JSON array of the store file, [] when the file is absent
LoadExisting(fs, date) == IF date \in DOMAIN fs THEN fs[date] ELSE <<>>

AllDataSwapped(existing, new) == new \o existing

\* line 65
all_data(existing, new) == existing \o new

\* {item['datetime']: item for item in all}: the item stored last under each key
RECURSIVE DictOf(_, _, _)
DictOf(all, lo, hi) ==
    IF lo > hi THEN <<>>
    ELSE IF lo = hi THEN all[lo].datetime :> all[lo]
    ELSE LET mid == (lo + hi) \div 2
         IN  DictOf(all, mid + 1, hi) @@ DictOf(all, lo, mid)

\* the keys of that dict in insertion order (first occurrence of each key)
RECURSIVE KeyOrder(_, _, _)
KeyOrder(all, lo, hi) ==
    IF lo > hi THEN <<>>
    ELSE IF lo = hi THEN <<all[lo].datetime>>
    ELSE LET mid == (lo + hi) \div 2
             left == KeyOrder(all, lo, mid)
             earlier == {left[i] : i \in DOMAIN left}
         IN  left \o SelectSeq(KeyOrder(all, mid + 1, hi), LAMBDA k : k \notin earlier)

UniqueKeepAll(all) == all

\* line 66: dict(...).values()
unique_data(all) ==
    LET d == DictOf(all, 1, Len(all))
        ks == KeyOrder(all, 1, Len(all))
    IN  [i \in DOMAIN ks |-> d[ks[i]]]

SortedNot(items) == items

\* line 67: sorted(unique_data, key=lambda x: x['datetime'])
sorted_data(items) == SortSeq(items, LAMBDA a, b : a.datetime < b.datetime)

\* line 76: [d for d in sorted_data if d['datetime'] >= <now>[:10] + 'T00:00:00']
recent_data(items, now) == SelectSeq(items, LAMBDA d : d.datetime >= Midnight(now))

LastSliceFirst(items, n) == IF Len(items) <= n THEN items ELSE SubSeq(items, 1, n)

\* line 78: items[-n:]
LastSlice(items, n) ==
    IF Len(items) <= n THEN items ELSE SubSeq(items, Len(items) - n + 1, Len(items))

\* line 65-67: what line 70-71 writes to the store file
StoreContent(existing, batch) == sorted_data(unique_data(all_data(existing, batch)))

\* line 76-78: what is written to latest.json when the clock shows date now
LatestContent(sorted, now) == LastSlice(recent_data(sorted, now), LatestWindow)

DriverIdle ==
    /\ pc = "off"
    /\ run = "none"
    /\ loop_i = 0
    /\ start_date = 0
    /\ pred_all_data = <<>>
    /\ failed = {}
    /\ predFiles = <<>>
    /\ predLatest = <<>>
    /\ pred_today = 0
    /\ saves = 0
    /\ before = <<>>

Procs == {1, 2}

RaceIdle ==
    /\ rpc = [p \in Procs |-> "idle"]
    /\ rdata = [p \in Procs |-> <<>>]
    /\ rtoday = [p \in Procs |-> 0]
    /\ rexisting = [p \in Procs |-> <<>>]
    /\ rsorted = [p \in Procs |-> <<>>]
    /\ reads = [p \in Procs |-> 0]
    /\ writes = [p \in Procs |-> 0]
    /\ seen = [p \in Procs |-> {}]
    /\ lastWriter = 0

-----------------------------------------------------------------------------
(* extract_observed_tide of fetch_observed_tide.py, on the characters of the *)
(* page.  The character "H" stands for the text that the head of the section *)
(* pattern consumes: the phrase introducing the 5-minute observed values up  *)
(* to and including the column labels "year date time cm".                   *)

None == <<"None">>

Digits == {"0", "1", "2", "3", "4", "5", "6", "7", "8", "9"}

Spaces == {" ", "\n"}

DigitValue(c) ==
    CASE c = "0" -> 0 [] c = "1" -> 1 [] c = "2" -> 2 [] c = "3" -> 3 [] c = "4" -> 4
      [] c = "5" -> 5 [] c = "6" -> 6 [] c = "7" -> 7 [] c = "8" -> 8 [] c = "9" -> 9

RECURSIVE NatOf(_)
NatOf(s) == IF s = <<>> THEN 0
            ELSE 10 * NatOf(SubSeq(s, 1, Len(s) - 1)) + DigitValue(s[Len(s)])

AllDigits(s) == s # <<>> /\ \A i \in DOMAIN s : s[i] \in Digits

\* int(s) raises ValueError unless s is a decimal numeral, possibly signed
IntRaises(s) == ~(AllDigits(s) \/ (s # <<>> /\ Head(s) = "-" /\ AllDigits(Tail(s))))

\* int(s) for such a numeral
int(s) == IF Head(s) = "-" THEN 0 - NatOf(Tail(s)) ELSE NatOf(s)

\* str.zfill(width) for a string of digits
RECURSIVE zfill(_, _)
zfill(s, width) == IF Len(s) >= width THEN s ELSE zfill(<<"0">> \o s, width)

\* the length of the longest run of characters of class cls that starts at p
RECURSIVE RunLen(_, _, _)
RunLen(text, p, cls) ==
    IF p > Len(text) \/ text[p] \notin cls THEN 0 ELSE 1 + RunLen(text, p + 1, cls)

FirstIndex(text, from, chars) ==
    LET hits == {i \in from..Len(text) : text[i] \in chars}
    IN  IF hits = {} THEN 0 ELSE CHOOSE i \in hits : \A j \in hits : i <= j

\* line 23-33: group(1) of the section pattern: the text after the section head
\* up to the next "<" or the end of the text; None when the head is absent
SectionText(text) ==
    LET head == FirstIndex(text, 1, {"H"})
        stop == IF head = 0 THEN 0 ELSE FirstIndex(text, head + 1, {"<"})
    IN  IF head = 0 THEN None
        ELSE IF stop = 0 THEN SubSeq(text, head + 1, Len(text))
        ELSE SubSeq(text, head + 1, stop - 1)

\* \s+ followed by \d{1,2} with white space after it, from position p: the
\* classes \d and \s are disjoint, so the only split the matcher can succeed
\* with takes the whole run of white space and a whole run of 1 or 2 digits.
\* <<>> when there is no match, else <<the digits, the position after them>>.
ShortField(text, p) ==
    LET sp == RunLen(text, p, Spaces)
        n == RunLen(text, p + sp, Digits)
    IN  IF sp >= 1 /\ n \in {1, 2} /\ RunLen(text, p + sp + n, Spaces) >= 1
        THEN <<SubSeq(text, p + sp, p + sp + n - 1), p + sp + n>>
        ELSE <<>>

\* \s+(\d+|9999) from position p: \d+ is tried first and takes every digit
ValueField(text, p) ==
    LET sp == RunLen(text, p, Spaces)
        n == RunLen(text, p + sp, Digits)
    IN  IF sp >= 1 /\ n >= 1
        THEN <<SubSeq(text, p + sp, p + sp + n - 1), p + sp + n>>
        ELSE <<>>

\* line 34: data_pattern matched at position p: <<>> or <<the 6 groups, end>>
MatchAt(text, p) ==
    IF RunLen(text, p, Digits) < 4 THEN <<>>
    ELSE LET year == SubSeq(text, p, p + 3)
             mo == ShortField(text, p + 4)
             dy == IF mo = <<>> THEN <<>> ELSE ShortField(text, mo[2])
             hr == IF dy = <<>> THEN <<>> ELSE ShortField(text, dy[2])
             mi == IF hr = <<>> THEN <<>> ELSE ShortField(text, hr[2])
             cm == IF mi = <<>> THEN <<>> ELSE ValueField(text, mi[2])
         IN  IF cm = <<>> THEN <<>>
             ELSE <<<<year, mo[1], dy[1], hr[1], mi[1], cm[1]>>, cm[2]>>

\* line 35: re.findall: the matches from left to right, none overlapping
RECURSIVE findall(_, _)
findall(text, p) ==
    IF p > Len(text) THEN <<>>
    ELSE LET m == MatchAt(text, p)
         IN  IF m = <<>> THEN findall(text, p + 1)
             ELSE <<m[1]>> \o findall(text, m[2])

\* line 41: the datetime string of a match
datetime_str(match) ==
    match[1] \o <<"-">> \o zfill(match[2], 2) \o <<"-">> \o zfill(match[3], 2)
        \o <<"T">> \o zfill(match[4], 2) \o <<":">> \o zfill(match[5], 2)
        \o <<":", "0", "0">>

Sentinel == <<"9", "9", "9", "9">>

\* line 37-48: one record per match whose value is not the sentinel
RowsOf(matches) ==
    LET kept == SelectSeq(matches, LAMBDA m : m[6] # Sentinel)
    IN  [i \in DOMAIN kept |->
            [datetime |-> datetime_str(kept[i]), tide |-> int(kept[i][6]),
             type |-> "observed"]]

\* line 21-48
extract_observed_tide(text) ==
    LET section == SectionText(text)
    IN  IF section = None THEN <<>> ELSE RowsOf(findall(section, 1))

-----------------------------------------------------------------------------
(* Gauge pages: a section head, one line per tuple, and possibly markup with *)
(* more numbers after the section.                                          *)

Months == {<<"1">>, <<"1", "2">>}

Minutes == {<<"5">>, <<"5", "5">>}

RawValues == {<<"1", "5", "0">>, <<"0">>, Sentinel, <<"-", "1", "2">>}

Tuple(mo, dy, mi, v) ==
    [year |-> <<"2", "0", "2", "4">>, month |-> mo, day |-> dy,
     hour |-> <<"9">>, minute |-> mi, value |-> v]

Tuples == {Tuple(mo, <<"3">>, mi, v) : mo \in Months, mi \in Minutes, v \in RawValues}

TupleSeqs == UNION {[1..n -> Tuples] : n \in 0..MaxTuples}

LineOf(t) ==
    <<"\n">> \o t.year \o <<" ">> \o t.month \o <<" ">> \o t.day \o <<" ", " ">>
        \o t.hour \o <<" ">> \o t.minute \o <<" ", " ">> \o t.value

RECURSIVE LinesOf(_)
LinesOf(ts) == IF ts = <<>> THEN <<>> ELSE LineOf(Head(ts)) \o LinesOf(Tail(ts))

\* what may follow the data section: nothing, or a tag and a further tuple
Trailers == {<<>>, <<"\n", "<">> \o LineOf(Tuple(<<"1">>, <<"3">>, <<"5">>, <<"7", "7">>))}

Heads == {<<"H">>, <<>>}

PageText(head, ts, trailer) == head \o LinesOf(ts) \o trailer

-----------------------------------------------------------------------------
(* extract_observed_tide applied to every generated page *)

ExtractIdle ==
    /\ tuples = <<>>
    /\ content = None
    /\ data_rows = <<>>
    /\ xpc = "idle"

InitExtract ==
    /\ tuples \in TupleSeqs
    /\ \E head \in Heads, trailer \in Trailers : content = PageText(head, tuples, trailer)
    /\ data_rows = <<>>
    /\ xpc = "page"
    /\ clock = 1 /\ files = <<>> /\ latest = <<>> /\ calls = 0 /\ data = <<>>
    /\ existing_data = <<>> /\ today = 0 /\ cutoff = 0
    /\ prevData = <<>> /\ prevToday = 0
    /\ RaceIdle
    /\ DriverIdle

Extract ==
    /\ xpc = "page"
    /\ data_rows' = extract_observed_tide(content)
    /\ xpc' = "extracted"
    /\ UNCHANGED <<tuples, content>>
    /\ UNCHANGED <<saveVars, raceVars, driverVars>>

NextExtract == Extract

SpecExtract == InitExtract /\ [][NextExtract]_vars

-----------------------------------------------------------------------------
(* The batches handed to save_data: runs of consecutive 5-minute readings:   *)
(* two readings, two readings followed by a second reading for the first    *)
(* datetime, or one reading more than latest.json may hold.                 *)

Run(start, n, cm) == [i \in 1..n |-> Observed(start + SampleMinutes * (i - 1), cm)]

Tides == {150, 160}

\* a run starts with yesterday's last reading or with today's first one
RunStarts(now) == {Dt(now - 1, 23, 55), Dt(now, 0, 0)}

Batches(now) ==
    {Run(s, 2, cm) : s \in RunStarts(now), cm \in Tides}
    \cup {Run(s, 2, 150) \o <<Observed(s, 160)>> : s \in RunStarts(now)}
    \cup {Run(Dt(now, 0, 0), LatestWindow + 1, 160)}

\* the store a run of the day before the first modelled call has left behind
EarlierBatch == Run(Dt(0, 23, 55), 3, 150)

-----------------------------------------------------------------------------
(* Sequential runs of save_data *)

InitSave ==
    /\ clock = 1
    /\ \/ files = <<>> /\ latest = <<>>
       \/ /\ files = (1 :> StoreContent(<<>>, EarlierBatch))
          /\ latest = <<LatestContent(files[1], 1)>>
    /\ calls = 0
    /\ data = <<>>
    /\ existing_data = <<>>
    /\ today = 0
    /\ cutoff = 0
    /\ prevData = <<>>
    /\ prevToday = 0
    /\ ExtractIdle
    /\ RaceIdle
    /\ DriverIdle

\* the calendar date changes between two runs
Tick ==
    /\ clock < MaxDay
    /\ clock' = clock + 1
    /\ UNCHANGED <<files, latest, calls, data, existing_data, today, cutoff,
                   prevData, prevToday>>
    /\ UNCHANGED <<extractVars, raceVars, driverVars>>

\* one whole call save_data(batch) that returns; the clock is read at line 55
\* and again at line 76, and midnight may pass between the two reads
SaveData(batch) ==
    /\ calls < MaxCalls
    /\ LET now1 == clock
           existing == LoadExisting(files, now1)
           sorted == StoreContent(existing, batch)
       IN  /\ files' = (now1 :> sorted) @@ files
           /\ today' = now1
           /\ existing_data' = existing
           /\ \E now2 \in {clock, Min(clock + 1, MaxDay)} :
                 /\ latest' = <<LatestContent(sorted, now2)>>
                 /\ clock' = now2
                 /\ cutoff' = now2
    /\ data' = batch
    /\ prevData' = data
    /\ prevToday' = today
    /\ calls' = calls + 1
    /\ UNCHANGED <<extractVars, raceVars, driverVars>>

NextSave ==
    \/ Tick
    \/ \E batch \in Batches(clock) : SaveData(batch)

SpecSave == InitSave /\ [][NextSave]_vars

-----------------------------------------------------------------------------
(* Two save_data calls of two runs of the script on the same day, against   *)
(* the same directory, their file operations interleaved.  No step takes or *)
(* waits for a lock: the code has none.                                     *)

InitRace ==
    /\ clock = 1
    /\ \/ files = <<>> /\ latest = <<>>
       \/ /\ files = (1 :> StoreContent(<<>>, EarlierBatch))
          /\ latest = <<LatestContent(files[1], 1)>>
    /\ calls = 0 /\ data = <<>> /\ existing_data = <<>> /\ today = 0 /\ cutoff = 0
    /\ prevData = <<>> /\ prevToday = 0
    /\ ExtractIdle
    /\ RaceIdle
    /\ DriverIdle

\* line 50-56: the call is entered and names the store file
RaceCall(p, batch) ==
    /\ rpc[p] = "idle"
    /\ rpc' = [rpc EXCEPT ![p] = "read"]
    /\ rdata' = [rdata EXCEPT ![p] = batch]
    /\ rtoday' = [rtoday EXCEPT ![p] = clock]
    /\ UNCHANGED <<rexisting, rsorted, reads, writes, seen, lastWriter>>
    /\ UNCHANGED <<saveVars, extractVars, driverVars>>

\* line 59-62: the store file is read
RaceRead(p) ==
    /\ rpc[p] = "read"
    /\ rexisting' = [rexisting EXCEPT ![p] = LoadExisting(files, rtoday[p])]
    /\ reads' = [reads EXCEPT ![p] = @ + 1]
    /\ seen' = [seen EXCEPT ![p] = {q \in Procs : writes[q] > 0}]
    /\ rpc' = [rpc EXCEPT ![p] = "write"]
    /\ UNCHANGED <<rdata, rtoday, rsorted, writes, lastWriter>>
    /\ UNCHANGED <<saveVars, extractVars, driverVars>>

RaceWriteRereads(p) ==
    /\ rpc[p] = "write"
    /\ rsorted' = [rsorted EXCEPT
                     ![p] = StoreContent(LoadExisting(files, rtoday[p]), rdata[p])]
    /\ files' = (rtoday[p] :> rsorted'[p]) @@ files
    /\ writes' = [writes EXCEPT ![p] = @ + 1]
    /\ lastWriter' = p
    /\ rpc' = [rpc EXCEPT ![p] = "latest"]
    /\ UNCHANGED <<rdata, rtoday, rexisting, reads, seen>>
    /\ UNCHANGED <<clock, latest, calls, data, existing_data, today, cutoff,
                   prevData, prevToday>>
    /\ UNCHANGED <<extractVars, driverVars>>

\* line 65-71: merge what was read with the batch and write the store file
RaceWrite(p) ==
    /\ rpc[p] = "write"
    /\ rsorted' = [rsorted EXCEPT ![p] = StoreContent(rexisting[p], rdata[p])]
    /\ files' = (rtoday[p] :> rsorted'[p]) @@ files
    /\ writes' = [writes EXCEPT ![p] = @ + 1]
    /\ lastWriter' = p
    /\ rpc' = [rpc EXCEPT ![p] = "latest"]
    /\ UNCHANGED <<rdata, rtoday, rexisting, reads, seen>>
    /\ UNCHANGED <<clock, latest, calls, data, existing_data, today, cutoff,
                   prevData, prevToday>>
    /\ UNCHANGED <<extractVars, driverVars>>

\* line 73-84: write latest.json and return
RaceLatest(p) ==
    /\ rpc[p] = "latest"
    /\ latest' = <<LatestContent(rsorted[p], clock)>>
    /\ rpc' = [rpc EXCEPT ![p] = "done"]
    /\ UNCHANGED <<rdata, rtoday, rexisting, rsorted, reads, writes, seen, lastWriter>>
    /\ UNCHANGED <<clock, files, calls, data, existing_data, today, cutoff,
                   prevData, prevToday>>
    /\ UNCHANGED <<extractVars, driverVars>>

NextRace ==
    \E p \in Procs :
        \/ \E batch \in Batches(clock) : RaceCall(p, batch)
        \/ RaceRead(p)
        \/ RaceWrite(p)
        \/ RaceLatest(p)

SpecRace == InitRace /\ [][NextRace]_vars

-----------------------------------------------------------------------------
(* fetch_prediction_data of fetch_tide_prediction.py.  A response is either *)
(* an error of the request (requests.get or raise_for_status raises) or a   *)
(* parsed page: whether it has the table with bgcolor #e3ffe3, and the rows *)
(* of that table, each row the texts of its td cells.                       *)

RequestError == [kind |-> "error", table |-> FALSE, rows |-> <<>>]

Html(table, rows) == [kind |-> "html", table |-> table, rows |-> rows]

Prediction(dt, cm) == [datetime |-> dt, tide |-> cm, type |-> "prediction"]

\* str.strip()
strip(s) ==
    LET ink == {k \in DOMAIN s : s[k] \notin Spaces}
    IN  IF ink = {} THEN <<>>
        ELSE SubSeq(s, CHOOSE a \in ink : \A b \in ink : a <= b,
                       CHOOSE a \in ink : \A b \in ink : a >= b)

\* str.replace(' ', '')
RemoveBlanks(s) == SelectSeq(s, LAMBDA c : c # " ")

\* line 38-41: [td.text.strip() for td in row.find_all('td')[1:]]
CellTexts(row) == [k \in 1..(Len(row) - 1) |-> strip(row[k + 1])]

\* line 47-56: the first j (counted from 1) at which the loop body raises:
\* hours[j] or levels[j] is out of range, or int(level_cm) raises; 0 if none
FirstRaise(hours, levels) ==
    LET bad == {j \in 1..HoursFetched :
                   \/ j > Len(hours)
                   \/ j > Len(levels)
                   \/ IntRaises(RemoveBlanks(levels[j]))}
    IN  IF bad = {} THEN 0 ELSE CHOOSE j \in bad : \A k \in bad : j <= k

\* line 46-56: the records of the first n hours
HourlyRecords(target_date, hours, levels, n) ==
    [j \in 1..n |-> Prediction(Dt(target_date, int(zfill(hours[j], 2)), 0),
                               int(RemoveBlanks(levels[j])))]

FetchKeepsPartial(target_date, response) ==
    IF response.kind = "error" \/ ~response.table \/ Len(response.rows) < 4 THEN <<>>
    ELSE LET hours == CellTexts(response.rows[1]) \o CellTexts(response.rows[3])
             levels == CellTexts(response.rows[2]) \o CellTexts(response.rows[4])
             raise == FirstRaise(hours, levels)
         IN  IF raise = 0
             THEN <<HourlyRecords(target_date, hours, levels, HoursFetched)>>
             ELSE <<HourlyRecords(target_date, hours, levels, raise - 1)>>

\* line 17-62: <<>> for None, else <<the list of 24 records>>
fetch_prediction_data(target_date, response) ==
    IF response.kind = "error" THEN <<>>                 \* line 28-29, 60-62
    ELSE IF ~response.table THEN <<>>                    \* line 33-35
    ELSE IF Len(response.rows) < 4 THEN <<>>             \* rows[3]: IndexError
    ELSE LET hours == CellTexts(response.rows[1]) \o CellTexts(response.rows[3])
             levels == CellTexts(response.rows[2]) \o CellTexts(response.rows[4])
         IN  IF FirstRaise(hours, levels) # 0 THEN <<>>   \* line 60-62
             ELSE <<HourlyRecords(target_date, hours, levels, HoursFetched)>>

-----------------------------------------------------------------------------
(* The responses of the prediction service *)

DigitChar(n) == CHOOSE c \in Digits : DigitValue(c) = n

RECURSIVE NumStr(_)
NumStr(n) == IF n < 10 THEN <<DigitChar(n)>>
             ELSE NumStr(n \div 10) \o <<DigitChar(n % 10)>>

\* the published level of each hour: -5 cm at 03:00, else 90 + 5 * hour
LevelAt(hour) == IF hour = 3 THEN 0 - 5 ELSE 90 + 5 * hour

LevelCell(hour) ==
    IF LevelAt(hour) < 0 THEN <<" ", "-">> \o NumStr(0 - LevelAt(hour))
    ELSE IF LevelAt(hour) < 100 THEN <<" ", " ">> \o NumStr(LevelAt(hour))
    ELSE <<" ">> \o NumStr(LevelAt(hour))

HourRow(from, n) == <<<<"h">>>> \o [k \in 1..n |-> NumStr(from + k - 1)]

LevelRow(from, n) == <<<<"c", "m">>>> \o [k \in 1..n |-> LevelCell(from + k - 1)]

GoodRows == <<HourRow(0, 12), LevelRow(0, 12), HourRow(12, 12), LevelRow(12, 12)>>

\* the afternoon rows one cell short
ShortRows == <<HourRow(0, 12), LevelRow(0, 12), HourRow(12, 11), LevelRow(12, 11)>>

\* the level of 23:00 given as "-"
DashRows ==
    <<HourRow(0, 12), LevelRow(0, 12), HourRow(12, 12),
      LevelRow(12, 11) \o <<<<" ", "-">>>> >>

Responses ==
    {RequestError, Html(FALSE, <<>>), Html(TRUE, SubSeq(GoodRows, 1, 3)),
     Html(TRUE, ShortRows), Html(TRUE, DashRows), Html(TRUE, GoodRows)}

\* a well-formed page: the table, its 4 rows, 12 numeric cells after each label
WellFormed(response) ==
    /\ response.kind = "html"
    /\ response.table
    /\ Len(response.rows) = 4
    /\ \A r \in 1..4 : Len(response.rows[r]) = 13
    /\ \A r \in {2, 4} : \A k \in 2..13 :
          ~IntRaises(RemoveBlanks(strip(response.rows[r][k])))

-----------------------------------------------------------------------------
(* The two drivers: one run of either script.  The output files of earlier  *)
(* runs may be there; a store file may hold text that is not JSON (a write  *)
(* that failed half way leaves one).  Directory creation and file writes    *)
(* can fail.                                                                *)

Malformed == <<[datetime |-> 0 - 1, tide |-> 0, type |-> "not JSON"]>>

\* the pages the gauge service answers a driver run with (all of 2024-01)
DriverTuples ==
    {Tuple(<<"1">>, <<"1">>, <<"5">>, <<"1", "5", "0">>),
     Tuple(<<"1">>, <<"1">>, <<"5", "5">>, <<"1", "6", "0">>),
     Tuple(<<"1">>, <<"1">>, <<"5">>, Sentinel)}

DriverPages ==
    {PageText(head, ts, <<>>) :
        head \in Heads, ts \in UNION {[1..n -> DriverTuples] : n \in 0..2}}

\* the datetime string of a record of January 2024 as the persisters' number
DtOfString(str) ==
    Dt(NatOf(SubSeq(str, 9, 10)), NatOf(SubSeq(str, 12, 13)), NatOf(SubSeq(str, 15, 16)))

AsStored(rows) == [k \in DOMAIN rows |-> Observed(DtOfString(rows[k].datetime), rows[k].tide)]

Snapshot == <<files, latest, predFiles, predLatest>>

EarlierPrediction == [j \in 1..2 |-> Prediction(Dt(0, j, 0), 100)]

InitDrivers ==
    /\ clock = 1
    /\ \/ files = <<>> /\ latest = <<>>
       \/ /\ files = (1 :> StoreContent(<<>>, EarlierBatch))
          /\ latest = <<LatestContent(files[1], 1)>>
       \/ files = (1 :> Malformed) /\ latest = <<>>
    /\ \/ predFiles = <<>> /\ predLatest = <<>>
       \/ predFiles = (0 :> EarlierPrediction) /\ predLatest = <<EarlierPrediction>>
    /\ calls = 0 /\ data = <<>> /\ existing_data = <<>> /\ today = 0 /\ cutoff = 0
    /\ prevData = <<>> /\ prevToday = 0
    /\ ExtractIdle
    /\ RaceIdle
    /\ pc = "idle"
    /\ run = "none"
    /\ loop_i = 0
    /\ start_date = 0
    /\ pred_all_data = <<>>
    /\ failed = {}
    /\ pred_today = 0
    /\ saves = 0
    /\ before = <<>>

saveLocals == <<calls, existing_data, today, cutoff, prevData, prevToday>>

predVars == <<loop_i, start_date, pred_all_data, failed, predFiles, predLatest, pred_today>>

\* midnight passes while a script runs
DriverTick ==
    /\ pc \notin {"idle", "returned", "raised"}
    /\ clock < MaxDay
    /\ clock' = clock + 1
    /\ UNCHANGED <<files, latest, data, saveLocals, extractVars, raceVars, driverVars>>

\* fetch_observed_tide.py line 86-90
StartObserved ==
    /\ pc = "idle"
    /\ pc' = "o_fetch"
    /\ run' = "observed"
    /\ before' = Snapshot
    /\ UNCHANGED <<clock, files, latest, data, saveLocals, extractVars, raceVars,
                   predVars, saves>>

\* line 93-96: fetch_tide_data returns None, and main returns
ObsFetchNone ==
    /\ pc = "o_fetch"
    /\ content' = None
    /\ pc' = "returned"
    /\ UNCHANGED <<clock, files, latest, data, saveLocals, tuples, data_rows, xpc,
                   raceVars, run, predVars, saves, before>>

\* line 93-94: fetch_tide_data returns the text of a page
ObsFetch(page) ==
    /\ pc = "o_fetch"
    /\ content' = page
    /\ pc' = "o_extract"
    /\ UNCHANGED <<clock, files, latest, data, saveLocals, tuples, data_rows, xpc,
                   raceVars, run, predVars, saves, before>>

ObsExtractNoGuard ==
    /\ pc = "o_extract"
    /\ data' = AsStored(extract_observed_tide(content))
    /\ pc' = "o_save"
    /\ UNCHANGED <<clock, files, latest, saveLocals, extractVars, raceVars, run,
                   predVars, saves, before>>

\* line 99-104: extract; main returns when the list is empty
ObsExtract ==
    /\ pc = "o_extract"
    /\ data' = AsStored(extract_observed_tide(content))
    /\ pc' = IF data' = <<>> THEN "returned" ELSE "o_save"
    /\ UNCHANGED <<clock, files, latest, saveLocals, extractVars, raceVars, run,
                   predVars, saves, before>>

\* line 107-111: save_data(data) returns, and main returns
ObsSave ==
    /\ pc = "o_save"
    /\ LoadExisting(files, clock) # Malformed
    /\ LET sorted == StoreContent(LoadExisting(files, clock), data)
       IN  /\ files' = (clock :> sorted) @@ files
           /\ \E now2 \in {clock, Min(clock + 1, MaxDay)} :
                 /\ latest' = <<LatestContent(sorted, now2)>>
                 /\ clock' = now2
    /\ saves' = saves + 1
    /\ pc' = "returned"
    /\ UNCHANGED <<data, saveLocals, extractVars, raceVars, run, predVars, before>>

\* line 107: save_data(data) raises, and nothing in main catches it:
\*   "mkdir"  line 52, the directory cannot be created
\*   "load"   line 61-62, the store file cannot be read or is not JSON
\*   "store"  line 70-71, the store file cannot be opened (left as it was) or
\*            written in full (left truncated)
\*   "latest" line 77-78, the same for latest.json, the store file being written
ObsSaveRaises(point) ==
    /\ pc = "o_save"
    /\ point = "load" => clock \in DOMAIN files
    /\ point \in {"store", "latest"} => LoadExisting(files, clock) # Malformed
    /\ \E truncated \in BOOLEAN :
         LET sorted == StoreContent(LoadExisting(files, clock), data)
         IN  /\ files' = CASE point = "store" /\ truncated -> (clock :> Malformed) @@ files
                           [] point = "latest" -> (clock :> sorted) @@ files
                           [] OTHER -> files
             /\ latest' = IF point = "latest" /\ truncated THEN <<Malformed>> ELSE latest
    /\ saves' = saves + 1
    /\ pc' = "raised"
    /\ UNCHANGED <<clock, data, saveLocals, extractVars, raceVars, run, predVars, before>>

\* fetch_tide_prediction.py line 83-90
StartPrediction ==
    /\ pc = "idle"
    /\ pc' = "p_loop"
    /\ run' = "prediction"
    /\ before' = Snapshot
    /\ start_date' = clock
    /\ pred_all_data' = <<>>
    /\ loop_i' = 0
    /\ UNCHANGED <<clock, files, latest, data, saveLocals, extractVars, raceVars,
                   failed, predFiles, predLatest, pred_today, saves>>

\* line 92-101: one iteration of the loop over the dates
PredFetch(response) ==
    /\ pc = "p_loop"
    /\ loop_i < DAYS_TO_FETCH
    /\ LET target_date == start_date + loop_i
           fetched == fetch_prediction_data(target_date, response)
       IN  pred_all_data' = IF fetched # <<>> /\ fetched[1] # <<>>
                             THEN pred_all_data \o fetched[1]
                             ELSE pred_all_data
    /\ failed' = IF WellFormed(response) THEN failed ELSE failed \cup {loop_i}
    /\ loop_i' = loop_i + 1
    /\ UNCHANGED <<clock, files, latest, data, saveLocals, extractVars, raceVars,
                   pc, run, start_date, predFiles, predLatest, pred_today, saves, before>>

\* line 103, 108-109: nothing was fetched, and main returns
PredNoData ==
    /\ pc = "p_loop"
    /\ loop_i = DAYS_TO_FETCH
    /\ pred_all_data = <<>>
    /\ pc' = "returned"
    /\ UNCHANGED <<clock, files, latest, data, saveLocals, extractVars, raceVars,
                   run, predVars, saves, before>>

\* line 103-107 and 64-81: save_prediction_data(all_data) returns
PredSave ==
    /\ pc = "p_loop"
    /\ loop_i = DAYS_TO_FETCH
    /\ pred_all_data # <<>>
    /\ pred_today' = clock
    /\ predFiles' = (clock :> pred_all_data) @@ predFiles
    /\ predLatest' = <<pred_all_data>>
    /\ saves' = saves + 1
    /\ pc' = "returned"
    /\ UNCHANGED <<clock, files, latest, data, saveLocals, extractVars, raceVars,
                   run, loop_i, start_date, pred_all_data, failed, before>>

\* line 104: save_prediction_data raises, and nothing in main catches it:
\*   "mkdir" line 66, "store" line 72-73, "latest" line 77-78
PredSaveRaises(point) ==
    /\ pc = "p_loop"
    /\ loop_i = DAYS_TO_FETCH
    /\ pred_all_data # <<>>
    /\ pred_today' = clock
    /\ \E truncated \in BOOLEAN :
         /\ predFiles' = CASE point = "store" /\ truncated -> (clock :> Malformed) @@ predFiles
                            [] point = "latest" -> (clock :> pred_all_data) @@ predFiles
                            [] OTHER -> predFiles
         /\ predLatest' = IF point = "latest" /\ truncated THEN <<Malformed>>
                          ELSE predLatest
    /\ saves' = saves + 1
    /\ pc' = "raised"
    /\ UNCHANGED <<clock, files, latest, data, saveLocals, extractVars, raceVars,
                   run, loop_i, start_date, pred_all_data, failed, before>>

NextDrivers ==
    \/ DriverTick
    \/ StartObserved
    \/ ObsFetchNone
    \/ \E page \in DriverPages : ObsFetch(page)
    \/ ObsExtract
    \/ ObsSave
    \/ \E point \in {"mkdir", "load", "store", "latest"} : ObsSaveRaises(point)
    \/ StartPrediction
    \/ \E response \in Responses : PredFetch(response)
    \/ PredNoData
    \/ PredSave
    \/ \E point \in {"mkdir", "store", "latest"} : PredSaveRaises(point)

SpecDrivers == InitDrivers /\ [][NextDrivers]_vars

-----------------------------------------------------------------------------
(* Claims about save_data *)

Keys(items) == {items[i].datetime : i \in DOMAIN items}

Range(items) == {items[i] : i \in DOMAIN items}

StrictlyAscending(items) ==
    \A i \in 1..(Len(items) - 1) : items[i].datetime < items[i + 1].datetime

\* the records of a batch that are the last ones for their datetime
LastOfEach(items) ==
    IF Cardinality(Keys(items)) = Len(items) THEN Range(items)
    ELSE {items[i] : i \in {i \in DOMAIN items :
              \A j \in (i + 1)..Len(items) : items[j].datetime # items[i].datetime}}

\* C1: after any sequence of save_data calls every date-stamped store file
\* holds its records in strictly ascending order of datetime (hence no two
\* records of a store share a datetime).
C1_StoreStrictlyAscending ==
    \A d \in DOMAIN files : StrictlyAscending(files[d])

C1_Witness ==
    /\ calls >= 2
    /\ existing_data # <<>>
    /\ Keys(existing_data) \cap Keys(data) # {}
    /\ ~StrictlyAscending(data)
    /\ Len(files[today]) > 1

\* C2: the store file after save_data(B), read as a mapping from datetime to
\* the record, is the mapping of the existing store E overridden by that of B:
\* its datetimes are those of E and of B, a datetime of B carries the record
\* that comes last for it in B, and any other datetime carries E's record.
C2_MergeIsOverride ==
    calls >= 1 =>
        LET F == files[today]
        IN  /\ Cardinality(Keys(F)) = Len(F)
            /\ Range(F) = LastOfEach(data)
                  \cup {e \in Range(existing_data) : e.datetime \notin Keys(data)}

C2_Witness ==
    /\ calls >= 1
    /\ \E e \in Range(existing_data) : \E b \in Range(files[today]) :
          e.datetime = b.datetime /\ e.tide # b.tide
    /\ \E e \in Range(existing_data) : e.datetime \notin Keys(data)
    /\ Cardinality(Keys(data)) < Len(data)
    /\ Range(data) # LastOfEach(data)

\* C3: a save_data call that repeats the batch of the call before it, on the
\* same day, leaves the store file exactly as that earlier call left it.
C3_Idempotent ==
    (calls >= 2 /\ data = prevData /\ today = prevToday)
        => files[today] = existing_data

C3_Witness ==
    /\ calls >= 2 /\ data = prevData /\ today = prevToday
    /\ Cardinality(Keys(data)) < Len(data)
    /\ Keys(files[today]) # Keys(data)

\* C4: after a save_data call latest.json holds only records of the merged
\* store dated on or after 00:00:00 of the day on which the window is computed,
\* in ascending order; all of them when there are at most 288, and otherwise
\* exactly the 288 latest ones.
C4_LatestWindow ==
    calls >= 1 =>
        LET L == latest[1]
            Q == {r \in Range(files[today]) : r.datetime >= Midnight(cutoff)}
        IN  /\ Range(L) \subseteq Q
            /\ StrictlyAscending(L)
            /\ Len(L) = Min(LatestWindow, Cardinality(Q))
            /\ \A r \in Q \ Range(L) : r.datetime < L[1].datetime

C4_Witness ==
    /\ calls >= 1
    /\ Cardinality({r \in Range(files[today]) : r.datetime >= Midnight(cutoff)})
          > LatestWindow
    /\ \E r \in Range(files[today]) : r.datetime < Midnight(cutoff)
    /\ Len(latest[1]) = LatestWindow

\* C10: within one save_data call the date naming the store file and the date
\* that starts the latest.json window are the same calendar date.
C10_SameDate == calls >= 1 => today = cutoff

-----------------------------------------------------------------------------
(* Claims about extract_observed_tide *)

\* the integer a raw value denotes
SignedValue(v) == IF Head(v) = "-" THEN 0 - NatOf(Tail(v)) ELSE NatOf(v)

ValidTuples(ts) == SelectSeq(ts, LAMBDA t : t.value # Sentinel)

HasSection == \E i \in DOMAIN content : content[i] = "H"

\* C5: on a page whose data section lists N valid tuples and M sentinel tuples
\* extract_observed_tide returns exactly N records, in order of appearance, each
\* with the integer value of its tuple as tide, and none with tide 9999.
C5_ExtractsEveryValidTuple ==
    (xpc = "extracted" /\ HasSection) =>
        LET valid == ValidTuples(tuples)
        IN  /\ Len(data_rows) = Len(valid)
            /\ \A k \in DOMAIN data_rows :
                  /\ data_rows[k].tide = SignedValue(valid[k].value)
                  /\ data_rows[k].tide # 9999

-----------------------------------------------------------------------------
(* Claims about concurrent save_data calls *)

\* C9: each call reads the store file at most once and writes it at most
\* once; and when both calls have returned, the call q that wrote last having
\* read the file before the other call p wrote it, every record of p's batch
\* whose datetime q neither read nor was given is absent from the store: p's
\* update is lost.
C9_LostUpdate ==
    /\ \A p \in Procs : reads[p] <= 1 /\ writes[p] <= 1
    /\ \A p, q \in Procs :
          (/\ p # q /\ rpc[p] = "done" /\ rpc[q] = "done"
           /\ lastWriter = q /\ p \notin seen[q])
          => \A r \in Range(rdata[p]) :
                r.datetime \notin (Keys(rdata[q]) \cup Keys(rexisting[q]))
                    => r.datetime \notin Keys(files[rtoday[p]])

C9_Witness ==
    /\ \A p \in Procs : rpc[p] = "done" /\ reads[p] = 1 /\ writes[p] = 1
    /\ \E p \in Procs : \E r \in Range(rdata[p]) :
          r.datetime \notin Keys(files[rtoday[p]])

-----------------------------------------------------------------------------
(* Claims about the drivers *)

Ended == pc \in {"returned", "raised"}

AllIndexes == 0..(DAYS_TO_FETCH - 1)

NoUsableRecords ==
    \/ run = "observed" /\ (content = None \/ data = <<>>)
    \/ run = "prediction" /\ failed = AllIndexes

\* C6: a run that ends with no usable record (observed: the fetch returned
\* None or the extraction an empty list; prediction: all 7 dates failed) has
\* returned without calling the persister, and every output file is as it
\* was when the run began.
C6_NothingWrittenWithoutRecords ==
    (Ended /\ NoUsableRecords) => (pc = "returned" /\ saves = 0 /\ Snapshot = before)

C6_Witness ==
    /\ pc = "returned" /\ run = "prediction" /\ failed = AllIndexes
    /\ loop_i = DAYS_TO_FETCH
    /\ predLatest # <<>>
    /\ clock > start_date

\* the same for the observed driver: a page with a section but no valid tuple
C6_WitnessObserved ==
    /\ pc = "returned" /\ run = "observed" /\ content # None /\ data = <<>>
    /\ HasSection
    /\ files # <<>>

\* the loop indexes of the dates that did not fail, in ascending order
Succeeded == SelectSeq([k \in 1..DAYS_TO_FETCH |-> k - 1], LAMBDA k : k \notin failed)

\* C7: a prediction run in which at least one date succeeded and that has
\* returned has called the persister exactly once, and the date-stamped file
\* and latest.json both hold, in date order, exactly the 24 hourly records of
\* each date that succeeded and nothing of a date that failed.
C7_PartialRunKeepsWholeDates ==
    (pc = "returned" /\ run = "prediction" /\ failed # AllIndexes) =>
        /\ saves = 1
        /\ predFiles[pred_today] = predLatest[1]
        /\ LET out == predLatest[1]
           IN  /\ Len(out) = HoursFetched * Len(Succeeded)
               /\ \A k \in DOMAIN out :
                     LET date == start_date + Succeeded[((k - 1) \div HoursFetched) + 1]
                         hour == (k - 1) % HoursFetched
                     IN  out[k] = Prediction(Dt(date, hour, 0), LevelAt(hour))

C7_Witness ==
    /\ pc = "returned" /\ run = "prediction"
    /\ Cardinality(failed) = 2
    /\ 0 \in failed /\ 3 \in failed
    /\ Len(predLatest[1]) = 120

\* C8: no run of either driver ends with an exception leaving main().
C8_NoExceptionEscapes == pc # "raised"

====
